---- MODULE Spec2Model ----
(***************************************************************************)
(* Model of the modpack metadata pipeline of minecraft_modpack:            *)
(* read_modpack (manifest scanner + aggregator), get_modrinth_mods,        *)
(* get_curseforge_mods and sort_game_versions, as written in src/build.rs  *)
(* (entry point "build") and src/src/main.rs (entry point "main").         *)
(*                                                                         *)
(* Strings are sequences of one-character strings, so that Rust's byte-    *)
(* lexicographic String ordering, split('.'), the version regex and        *)
(* parse::<u32>() are computed and not assumed.                            *)
(***************************************************************************)
EXTENDS Integers, Sequences, FiniteSets

VARIABLES
    entry,            \* which binary runs: "build" (src/build.rs) or "main" (src/src/main.rs)
    forge_api_key,    \* environment variable FORGE_API_KEY: "unset", "empty" or "set"
    index,            \* the root index document (index.toml)
    pc,               \* position of the run
    mod_files,        \* read_modpack: metafile entries still to be read
    mods,             \* read_modpack: the record list being built
    mr_mods,          \* read_modpack: registry-A (Modrinth) identifier batch
    cf_mods,          \* read_modpack: registry-B (CurseForge) identifier batch
    modrinth_mods,    \* what get_modrinth_mods returned (before append drains it)
    curseforge_mods,  \* what get_curseforge_mods returned (before append drains it)
    requests,         \* the HTTP requests issued so far, in order (ok: answered with success)
    output,           \* the output file of main()
    arg,              \* input of the function under test (function-level specifications)
    ret               \* its result

vars == <<entry, forge_api_key, index, pc, mod_files, mods, mr_mods, cf_mods,
          modrinth_mods, curseforge_mods, requests, output, arg, ret>>

pipeVars == <<entry, forge_api_key, index, mod_files, mods, mr_mods, cf_mods,
              modrinth_mods, curseforge_mods, requests, output>>

(***************************************************************************)
(* Strings                                                                 *)
(***************************************************************************)

Digits == <<"0", "1", "2", "3", "4", "5", "6", "7", "8", "9">>

Upper == <<"A", "B", "C", "D", "E", "F", "G", "H", "I", "J", "K", "L", "M",
           "N", "O", "P", "Q", "R", "S", "T", "U", "V", "W", "X", "Y", "Z">>

Lower == <<"a", "b", "c", "d", "e", "f", "g", "h", "i", "j", "k", "l", "m",
           "n", "o", "p", "q", "r", "s", "t", "u", "v", "w", "x", "y", "z">>

IndexIn(seq, c) == CHOOSE k \in DOMAIN seq : seq[k] = c

IsDigit(c) == \E k \in DOMAIN Digits : Digits[k] = c

DigitVal(c) == IndexIn(Digits, c) - 1

\* The byte value of a character (ASCII).
Ord(c) ==
    IF IsDigit(c) THEN 48 + DigitVal(c)
    ELSE IF \E k \in DOMAIN Upper : Upper[k] = c THEN 64 + IndexIn(Upper, c)
    ELSE IF \E k \in DOMAIN Lower : Lower[k] = c THEN 96 + IndexIn(Lower, c)
    ELSE IF c = "+" THEN 43
    ELSE IF c = "-" THEN 45
    ELSE IF c = "." THEN 46
    ELSE IF c = "/" THEN 47
    ELSE 95

\* u8::cmp
ByteCmp(x, y) == IF x < y THEN "Less" ELSE IF x > y THEN "Greater" ELSE "Equal"

\* Ordering::then: the first ordering unless it is Equal
Then(first, second) == IF first # "Equal" THEN first ELSE second

RECURSIVE StrCmp(_, _)
\* String::cmp: lexicographic on bytes, a proper prefix is Less.
StrCmp(a, b) ==
    IF a = <<>> THEN (IF b = <<>> THEN "Equal" ELSE "Less")
    ELSE IF b = <<>> THEN "Greater"
    ELSE Then(ByteCmp(Ord(Head(a)), Ord(Head(b))), StrCmp(Tail(a), Tail(b)))

RECURSIVE Split(_)
\* str::split('.'): the pieces between the dots (always at least one piece).
Split(s) ==
    IF \A k \in DOMAIN s : s[k] # "."
    THEN <<s>>
    ELSE LET d == CHOOSE k \in DOMAIN s : s[k] = "." /\ \A j \in 1..(k - 1) : s[j] # "."
         IN  <<SubSeq(s, 1, d - 1)>> \o Split(SubSeq(s, d + 1, Len(s)))

\* u32::MAX = 4294967295, held as hi * 100000 + lo: the model checker's integers
\* are 32-bit signed, so a u32 is kept as two decimal limbs [hi, lo].
U32Max == [hi |-> 42949, lo |-> 67295]

\* Result<u32, ParseIntError>::Err
ParseErr == [hi |-> -1, lo |-> 0]

IsErr(n) == n.hi < 0

\* n if it fits a u32, ParseErr (overflow) if it does not.
CheckedU32(n) ==
    IF n.hi > U32Max.hi \/ (n.hi = U32Max.hi /\ n.lo > U32Max.lo) THEN ParseErr ELSE n

\* The limbs of hi * 100000 + low, the carry of low moved into hi.
Carried(hi, low) == [hi |-> hi + (low \div 100000), lo |-> low % 100000]

\* acc.checked_mul(10) and then checked_add(digit)
CheckedPush(acc, digit) == CheckedU32(Carried(acc.hi * 10, acc.lo * 10 + digit))

RECURSIVE DigitsValue(_, _)
\* The accumulation loop of u32::from_str: ParseErr on a non-digit or on
\* overflow past u32::MAX.
DigitsValue(s, acc) ==
    IF s = <<>> \/ IsErr(acc) THEN acc
    ELSE IF ~IsDigit(Head(s)) THEN ParseErr
    ELSE DigitsValue(Tail(s), CheckedPush(acc, DigitVal(Head(s))))

\* str::parse::<u32>(): the value, or ParseErr. An empty string, a lone sign,
\* a '-' and any non-digit are errors; one leading '+' is accepted.
ParseU32(s) ==
    IF s = <<>> \/ s = <<"+">> THEN ParseErr
    ELSE DigitsValue(IF Head(s) = "+" THEN Tail(s) ELSE s, [hi |-> 0, lo |-> 0])

\* u32::cmp, x.cmp(&y).
NumCmp(x, y) ==
    IF x.hi < y.hi \/ (x.hi = y.hi /\ x.lo < y.lo) THEN "Less"
    ELSE IF x.hi > y.hi \/ (x.hi = y.hi /\ x.lo > y.lo) THEN "Greater"
    ELSE "Equal"

\* b.cmp(&a) of two parsed numbers, each .unwrap()ped first: "panic" when
\* either is an Err.
UnwrappedCmp(a, b) == IF IsErr(a) \/ IsErr(b) THEN "panic" ELSE NumCmp(b, a)

\* split('.').nth(2).unwrap_or("0")
PatchPart(parts) == IF Len(parts) >= 3 THEN parts[3] ELSE <<"0">>

\* The comparator's body once both minors are parsed and unwrapped: the patch
\* parts are parsed (and unwrapped) only when the minors are equal.
MinorThenPatch(minors, a_parts, b_parts) ==
    IF minors # "Equal" THEN minors
    ELSE UnwrappedCmp(ParseU32(PatchPart(a_parts)), ParseU32(PatchPart(b_parts)))

\* The comparator's body on the split strings: split('.').nth(1).unwrap() (a
\* panic when there is no second piece), parsed and unwrapped, for both.
PartsCmp(a_parts, b_parts) ==
    IF Len(a_parts) < 2 \/ Len(b_parts) < 2 THEN "panic"
    ELSE MinorThenPatch(UnwrappedCmp(ParseU32(a_parts[2]), ParseU32(b_parts[2])),
                        a_parts, b_parts)

\* Mutant of VersionCmp: the operands swapped, which orders oldest first.
VersionCmpAscending(a, b) == PartsCmp(Split(b), Split(a))

\* The comparator closure of sort_game_versions: "Less", "Equal", "Greater", or
\* "panic" when an index or an unwrap() fails.
VersionCmp(a, b) == PartsCmp(Split(a), Split(b))

\* Mutant of ModCmp: the side is left out of the sort key.
ModCmpNameOnly(a, b) == StrCmp(a.name, b.name)

\* The comparator closure of read_modpack's final sort:
\* a.name.cmp(&b.name).then(a.side.cmp(&b.side)).
ModCmp(a, b) == Then(StrCmp(a.name, b.name), StrCmp(a.side, b.side))

\* The comparator a sort is called with: sort_game_versions' closure ("version"),
\* String's Ord for loaders.sort() ("string"), read_modpack's closure ("mod").
Compare(kind, a, b) ==
    CASE kind = "version" -> VersionCmp(a, b)
      [] kind = "string"  -> StrCmp(a, b)
      [] kind = "mod"     -> ModCmp(a, b)

(***************************************************************************)
(* slice::sort_by / slice::sort: the standard library's stable sort.  For  *)
(* slices of at most 20 elements (every list of this model) it is          *)
(* insertion_sort_shift_left: each element in turn is moved left past the  *)
(* elements it is Less than, comparing compare(element, left neighbour).   *)
(* A panic of the comparator unwinds out of the sort.                      *)
(***************************************************************************)
Sorted(s) == [ok |-> TRUE, val |-> s]

SortPanic == [ok |-> FALSE, val |-> <<>>]

\* Mutant of ShiftWhileLess: the element also moves past an Equal neighbour.
ShiftWhileNotGreater(c, stay, move) ==
    IF c = "panic" THEN SortPanic ELSE IF c = "Greater" THEN stay ELSE move

\* One step of insert_tail on the outcome c of is_less(element, left
\* neighbour): unwind on a panic, move on when Less, else stay.
ShiftWhileLess(c, stay, move) ==
    IF c = "panic" THEN SortPanic ELSE IF c = "Less" THEN move ELSE stay

RECURSIVE InsertTail(_, _, _, _)
\* insert_tail: x is placed into the sorted prefix, j = elements not yet passed.
InsertTail(kind, prefix, x, j) ==
    IF j = 0 THEN Sorted(<<x>> \o prefix)
    ELSE ShiftWhileLess(Compare(kind, x, prefix[j]),
                        Sorted(SubSeq(prefix, 1, j) \o <<x>> \o SubSeq(prefix, j + 1, Len(prefix))),
                        InsertTail(kind, prefix, x, j - 1))

RECURSIVE SortFrom(_, _, _)
\* insertion_sort_shift_left: sorted is the prefix already in order (or the
\* panic that ended the sort), rest the elements still to insert.
SortFrom(kind, sorted, rest) ==
    IF rest = <<>> \/ ~sorted.ok THEN sorted
    ELSE SortFrom(kind, InsertTail(kind, sorted.val, Head(rest), Len(sorted.val)), Tail(rest))

\* v.sort_by(compare): [ok, val]; ok = FALSE when the comparator panicked.
SortBy(kind, v) == SortFrom(kind, Sorted(<<>>), v)

\* sort_game_versions(&mut game_versions)
sort_game_versions(game_versions) == SortBy("version", game_versions)

(***************************************************************************)
(* Words of the program text and of the registries' vocabularies           *)
(***************************************************************************)
W_any == <<"a", "n", "y">>
W_forge == <<"f", "o", "r", "g", "e">>
W_cauldron == <<"c", "a", "u", "l", "d", "r", "o", "n">>
W_liteloader == <<"l", "i", "t", "e", "l", "o", "a", "d", "e", "r">>
W_fabric == <<"f", "a", "b", "r", "i", "c">>
W_quilt == <<"q", "u", "i", "l", "t">>
W_neoforge == <<"n", "e", "o", "f", "o", "r", "g", "e">>
W_unknown == <<"u", "n", "k", "n", "o", "w", "n">>
W_client == <<"c", "l", "i", "e", "n", "t">>
W_server == <<"s", "e", "r", "v", "e", "r">>
W_both == <<"b", "o", "t", "h">>
W_required == <<"r", "e", "q", "u", "i", "r", "e", "d">>
W_optional == <<"o", "p", "t", "i", "o", "n", "a", "l">>
W_unsupported == <<"u", "n", "s", "u", "p", "p", "o", "r", "t", "e", "d">>

(***************************************************************************)
(* JSON / TOML values: serde_json::Value and toml::Value, by type.         *)
(* "missing" is what get(key) answers for an absent key (None).            *)
(***************************************************************************)
JStr(s) == [t |-> "string", s |-> s, n |-> 0, a |-> <<>>]

JInt(n) == [t |-> "int", s |-> <<>>, n |-> n, a |-> <<>>]

JArr(a) == [t |-> "array", s |-> <<>>, n |-> 0, a |-> a]

JNull == [t |-> "null", s |-> <<>>, n |-> 0, a |-> <<>>]

JMissing == [t |-> "missing", s |-> <<>>, n |-> 0, a |-> <<>>]

\* An array of strings
StrArray(a) == JArr([k \in DOMAIN a |-> JStr(a[k])])

\* as_str() == Some(w)
AsStrIs(j, w) == j.t = "string" /\ j.s = w

\* get(key).unwrap().as_str().unwrap() succeeds
IsStr(j) == j.t = "string"

\* get(key).unwrap().as_array().unwrap(), every element .as_str().unwrap(), succeeds
IsStrArray(j) == j.t = "array" /\ \A k \in DOMAIN j.a : IsStr(j.a[k])

\* The strings of an array of strings
Strings(j) == [k \in DOMAIN j.a |-> j.a[k].s]

\* A ModpackInfo
ModpackInfo(name, side, url, game_versions, loaders) ==
    [name |-> name, side |-> side, url |-> url,
     game_versions |-> game_versions, loaders |-> loaders]

NoRecord == ModpackInfo(<<>>, <<>>, <<>>, <<>>, <<>>)

\* Outcome of normalising one item: res is "ok" (rec is the record pushed),
\* "panic" (an unwrap() failed) or "err" (a ? returned Err).
Pushed(rec) == [res |-> "ok", rec |-> rec]

Panicked == [res |-> "panic", rec |-> NoRecord]

Errored == [res |-> "err", rec |-> NoRecord]

(***************************************************************************)
(* get_modrinth_mods: one item of the response                             *)
(***************************************************************************)

\* Mutant of VersionRegexMatch: the major version is any digit, ^[0-9]\. ...
VersionRegexAnyMajor(s) ==
    /\ Len(s) >= 3
    /\ IsDigit(s[1])
    /\ s[2] = "."
    /\ \E i \in 3..Len(s) :
          /\ \A k \in 3..i : IsDigit(s[k])
          /\ \/ i = Len(s)
             \/ /\ i + 2 <= Len(s)
                /\ s[i + 1] = "."
                /\ \A k \in (i + 2)..Len(s) : IsDigit(s[k])

\* Regex::new(r"^1\.[0-9]+(\.[0-9]+)?$"), re.is_match(version)
VersionRegexMatch(s) ==
    /\ Len(s) >= 3
    /\ s[1] = "1"
    /\ s[2] = "."
    /\ \E i \in 3..Len(s) :
          /\ \A k \in 3..i : IsDigit(s[k])
          /\ \/ i = Len(s)
             \/ /\ i + 2 <= Len(s)
                /\ s[i + 1] = "."
                /\ \A k \in (i + 2)..Len(s) : IsDigit(s[k])

\* Mutant of ModrinthSide: the server arm tests "required" on the wrong field.
ModrinthSideSwapped(client_side, server_side) ==
    IF AsStrIs(client_side, W_required) /\ AsStrIs(server_side, W_unsupported) THEN W_client
    ELSE IF AsStrIs(client_side, W_optional) /\ AsStrIs(server_side, W_unsupported) THEN W_client
    ELSE IF AsStrIs(client_side, W_required) /\ AsStrIs(server_side, W_unsupported) THEN W_server
    ELSE IF AsStrIs(client_side, W_unsupported) /\ AsStrIs(server_side, W_optional) THEN W_server
    ELSE W_both

\* Mutant of ModrinthSide: the default arm gives "unknown", registry-B's side.
ModrinthSideUnknown(client_side, server_side) ==
    IF AsStrIs(client_side, W_required) /\ AsStrIs(server_side, W_unsupported) THEN W_client
    ELSE IF AsStrIs(client_side, W_optional) /\ AsStrIs(server_side, W_unsupported) THEN W_client
    ELSE IF AsStrIs(client_side, W_unsupported) /\ AsStrIs(server_side, W_required) THEN W_server
    ELSE IF AsStrIs(client_side, W_unsupported) /\ AsStrIs(server_side, W_optional) THEN W_server
    ELSE W_unknown

\* The match on (client_side.as_str(), server_side.as_str()), arm by arm.
ModrinthSide(client_side, server_side) ==
    IF AsStrIs(client_side, W_required) /\ AsStrIs(server_side, W_unsupported) THEN W_client
    ELSE IF AsStrIs(client_side, W_optional) /\ AsStrIs(server_side, W_unsupported) THEN W_client
    ELSE IF AsStrIs(client_side, W_unsupported) /\ AsStrIs(server_side, W_required) THEN W_server
    ELSE IF AsStrIs(client_side, W_unsupported) /\ AsStrIs(server_side, W_optional) THEN W_server
    ELSE W_both

\* .filter(|version| re.is_match(version)).collect()
FilterVersions(versions) == SelectSeq(versions, VersionRegexMatch)

\* mods.push(ModpackInfo { .. }) once loaders and game_versions are sorted; a
\* panic of sort_game_versions ends the item before the push.
PushSorted(name, side, url, game_versions, loaders) ==
    IF ~game_versions.ok THEN Panicked
    ELSE Pushed(ModpackInfo(name, side, url, game_versions.val, loaders.val))

\* The loop body of get_modrinth_mods for one item: the record pushed, or a panic.
ModrinthItem(item) ==
    IF \/ ~IsStr(item.title)
       \/ ~IsStr(item.slug)
       \/ item.client_side.t = "missing"
       \/ item.server_side.t = "missing"
       \/ ~IsStrArray(item.loaders)
       \/ ~IsStrArray(item.game_versions)
    THEN Panicked
    ELSE PushSorted(item.title.s,
                    ModrinthSide(item.client_side, item.server_side),
                    <<"https://modrinth.com/mod/">> \o item.slug.s,
                    sort_game_versions(FilterVersions(Strings(item.game_versions))),
                    SortBy("string", Strings(item.loaders)))

(***************************************************************************)
(* get_curseforge_mods: one item of the response                           *)
(***************************************************************************)
\* Mutant of LoaderName: the table shifted by one from code 4 on.
LoaderNameShifted(mod_loader) ==
    IF mod_loader.t # "int" THEN W_unknown
    ELSE CASE mod_loader.n = 0 -> W_any
           [] mod_loader.n = 1 -> W_forge
           [] mod_loader.n = 2 -> W_cauldron
           [] mod_loader.n = 3 -> W_liteloader
           [] mod_loader.n = 4 -> W_quilt
           [] mod_loader.n = 5 -> W_fabric
           [] mod_loader.n = 6 -> W_neoforge
           [] OTHER -> W_unknown

\* match mod_loader.as_i64() { Some(0) => "any", ... , _ => "unknown" }
LoaderName(mod_loader) ==
    IF mod_loader.t # "int" THEN W_unknown
    ELSE CASE mod_loader.n = 0 -> W_any
           [] mod_loader.n = 1 -> W_forge
           [] mod_loader.n = 2 -> W_cauldron
           [] mod_loader.n = 3 -> W_liteloader
           [] mod_loader.n = 4 -> W_fabric
           [] mod_loader.n = 5 -> W_quilt
           [] mod_loader.n = 6 -> W_neoforge
           [] OTHER -> W_unknown

\* The HashSet game_versions after the walk over latestFilesIndexes
GameVersionSet(indexes) == {indexes[k].gameVersion.s : k \in DOMAIN indexes}

\* The HashSet mod_loaders after the walk: `if let Some(mod_loader) = index.get("modLoader")`
ModLoaderSet(indexes) ==
    {LoaderName(indexes[k].modLoader) : k \in {j \in DOMAIN indexes : indexes[j].modLoader.t # "missing"}}

\* The orders in which iterating a HashSet may yield its elements (the hasher
\* is seeded at random per process): every enumeration without repetition.
IterOrders(S) ==
    {f \in [1..Cardinality(S) -> S] : \A i, j \in 1..Cardinality(S) : i # j => f[i] # f[j]}

\* How a missing or mistyped field of a registry-B item ends the run: build.rs
\* unwrap()s (panic), main.rs uses .context(..)? (Err).
CfFieldFailure(e) == IF e = "build" THEN Panicked ELSE Errored

\* The loop body of get_curseforge_mods in entry point e for one item, the two
\* hash sets being iterated in the orders vorder and lorder.
CurseforgeItem(e, item, vorder, lorder) ==
    IF \/ ~IsStr(item.name)
       \/ ~item.links.present
       \/ ~IsStr(item.links.websiteUrl)
       \/ item.latestFilesIndexes.t # "array"
    THEN CfFieldFailure(e)
    ELSE IF \E k \in DOMAIN item.latestFilesIndexes.a : ~IsStr(item.latestFilesIndexes.a[k].gameVersion)
    THEN Panicked
    ELSE PushSorted(item.name.s, W_unknown, item.links.websiteUrl.s,
                    sort_game_versions(vorder), SortBy("string", lorder))

\* Every outcome the loop body can have for one item: one per pair of
\* iteration orders of its two hash sets.
CurseforgeItemOutcomes(e, item) ==
    {CurseforgeItem(e, item, vorder, lorder) :
        vorder \in IterOrders(GameVersionSet(item.latestFilesIndexes.a)),
        lorder \in IterOrders(ModLoaderSet(item.latestFilesIndexes.a))}

(***************************************************************************)
(* Version strings used as inputs                                          *)
(***************************************************************************)
V1_20 == <<"1", ".", "2", "0">>
V1_20_0 == <<"1", ".", "2", "0", ".", "0">>
V1_20_1 == <<"1", ".", "2", "0", ".", "1">>
V1_19 == <<"1", ".", "1", "9">>
V1_19_4 == <<"1", ".", "1", "9", ".", "4">>
V2_0 == <<"2", ".", "0">>
V2_20 == <<"2", ".", "2", "0">>
V1_020 == <<"1", ".", "0", "2", "0">>
V1_Max == <<"1", ".", "4", "2", "9", "4", "9", "6", "7", "2", "9", "5">>
V1_Over == <<"1", ".", "4", "2", "9", "4", "9", "6", "7", "2", "9", "6">>
V1_20_Over == <<"1", ".", "2", "0", ".", "4", "2", "9", "4", "9", "6", "7", "2", "9", "6">>
Vabc == <<"a", "b", "c">>
V1_x == <<"1", ".", "x">>
V1_20_x == <<"1", ".", "2", "0", ".", "x">>
V1_plus20 == <<"1", ".", "+", "2", "0">>
V1 == <<"1">>
V1_dot == <<"1", ".">>

\* Inputs of the comparator: well-formed versions (equal pairs, leading zeros,
\* the u32 boundary) and malformed ones.
CmpVersions ==
    {V1_20, V1_20_0, V1_20_1, V1_19, V2_20, V1_020, V1_Max, V1_Over, V1_20_Over,
     Vabc, V1_x, V1_20_x, V1_plus20, V1}

\* The pipeline's variables, at rest in the function-level specifications.
PipelineOff ==
    /\ forge_api_key = "unset"
    /\ index = [ok |-> TRUE, files |-> <<>>]
    /\ mod_files = <<>>
    /\ mods = <<>>
    /\ mr_mods = <<>>
    /\ cf_mods = <<>>
    /\ modrinth_mods = <<>>
    /\ curseforge_mods = <<>>
    /\ requests = <<>>
    /\ output = [written |-> FALSE, mods |-> <<>>]

(***************************************************************************)
(* SpecCmp: the comparator of sort_game_versions applied to three version  *)
(* strings, in every pairing.                                              *)
(***************************************************************************)
InitCmp ==
    /\ PipelineOff
    /\ entry = "build"
    /\ pc = "call"
    /\ arg \in [a : CmpVersions, b : CmpVersions, c : CmpVersions]
    /\ ret = [ab |-> "none", ba |-> "none", bc |-> "none", ac |-> "none", aa |-> "none"]

CompareVersions ==
    /\ pc = "call"
    /\ ret' = [ab |-> VersionCmp(arg.a, arg.b), ba |-> VersionCmp(arg.b, arg.a),
               bc |-> VersionCmp(arg.b, arg.c), ac |-> VersionCmp(arg.a, arg.c),
               aa |-> VersionCmp(arg.a, arg.a)]
    /\ pc' = "return"
    /\ UNCHANGED <<pipeVars, arg>>

NextCmp == CompareVersions

SpecCmp == InitCmp /\ [][NextCmp]_vars

(***************************************************************************)
(* SpecMr: the loop body of get_modrinth_mods applied to one response item *)
(***************************************************************************)

\* Longest game_versions list of a registry-A item
MaxVersions == 4

\* Values of client_side / server_side: the three known levels, another string,
\* a value that is no string (as_str() is None).
SupportLevels == {JStr(W_required), JStr(W_optional), JStr(W_unsupported), JStr(W_unknown), JNull}

MrVersions == {V1_20, V1_20_0, V1_20_1, V1_19, V2_0, Vabc, V1_Over}

SeqsUpTo(S, n) == UNION {[1..k -> S] : k \in 0..n}

MrItem(client_side, server_side, loaders, game_versions) ==
    [title |-> JStr(<<"A">>), slug |-> JStr(<<"a">>),
     client_side |-> client_side, server_side |-> server_side,
     loaders |-> loaders, game_versions |-> game_versions]

MrItems ==
    {MrItem(c, s, StrArray(<<W_forge, W_fabric>>), StrArray(<<V1_19, V1_20_1>>)) :
        c \in SupportLevels \cup {JMissing}, s \in SupportLevels \cup {JMissing}}
    \cup {MrItem(JStr(W_required), JStr(W_required), StrArray(<<W_quilt, W_fabric>>), StrArray(v)) :
        v \in SeqsUpTo(MrVersions, MaxVersions)}
    \cup {MrItem(JStr(W_required), JStr(W_required), l, JArr(<<JStr(V1_19), JNull>>)) :
        l \in {StrArray(<<W_fabric, W_fabric>>), JMissing}}
    \cup {MrItem(JStr(W_required), JStr(W_required), StrArray(<<W_forge, W_fabric, W_forge>>),
                 StrArray(<<V1_19>>))}

InitMr ==
    /\ PipelineOff
    /\ entry = "build"
    /\ pc = "call"
    /\ arg \in MrItems
    /\ ret = Panicked

NormalizeModrinthItem ==
    /\ pc = "call"
    /\ ret' = ModrinthItem(arg)
    /\ pc' = "return"
    /\ UNCHANGED <<pipeVars, arg>>

NextMr == NormalizeModrinthItem

SpecMr == InitMr /\ [][NextMr]_vars

(***************************************************************************)
(* SpecCf: the loop body of get_curseforge_mods applied to one item        *)
(***************************************************************************)

\* Longest latestFilesIndexes list of a registry-B item
MaxIndexes == 4

FileIndex(gameVersion, modLoader) == [gameVersion |-> gameVersion, modLoader |-> modLoader]

CfItem(name, links, latestFilesIndexes) ==
    [name |-> name, links |-> links, latestFilesIndexes |-> latestFilesIndexes]

\* item.get("links"): present (an object holding websiteUrl) or absent
Links(websiteUrl) == [present |-> TRUE, websiteUrl |-> websiteUrl]

NoLinks == [present |-> FALSE, websiteUrl |-> JMissing]

CfLinks == Links(JStr(<<"cf/">>))

\* modLoader values: absent, null, every code of the table, codes outside it
AllModLoaders ==
    {JMissing, JNull, JInt(-1), JInt(0), JInt(1), JInt(2), JInt(3), JInt(4), JInt(5),
     JInt(6), JInt(7), JInt(99)}

SomeModLoaders == {JMissing, JInt(1), JInt(4), JInt(99)}

CfVersions == {V1_20, V1_20_0, V1_19, Vabc, V1_20_x}

CfItems ==
    {CfItem(JStr(<<"B">>), CfLinks, JArr([k \in DOMAIN l |-> FileIndex(JStr(V1_20), l[k])])) :
        l \in SeqsUpTo(SomeModLoaders, MaxIndexes) \cup SeqsUpTo(AllModLoaders, 2)}
    \cup {CfItem(JStr(<<"B">>), CfLinks, JArr([k \in DOMAIN v |-> FileIndex(JStr(v[k]), JMissing)])) :
        v \in SeqsUpTo(CfVersions, MaxIndexes)}
    \cup {CfItem(JMissing, CfLinks, JArr(<<>>)),
          CfItem(JStr(<<"B">>), NoLinks, JArr(<<>>)),
          CfItem(JStr(<<"B">>), Links(JNull), JArr(<<>>)),
          CfItem(JStr(<<"B">>), CfLinks, JMissing),
          CfItem(JStr(<<"B">>), CfLinks, JArr(<<FileIndex(JMissing, JInt(1))>>))}

InitCf ==
    /\ PipelineOff
    /\ entry \in {"build", "main"}
    /\ pc = "call"
    /\ arg \in CfItems
    /\ ret = Panicked

NormalizeCurseforgeItem ==
    /\ pc = "call"
    /\ ret' \in CurseforgeItemOutcomes(entry, arg)
    /\ pc' = "return"
    /\ UNCHANGED <<pipeVars, arg>>

NextCf == NormalizeCurseforgeItem

SpecCf == InitCf /\ [][NextCf]_vars

(***************************************************************************)
(* The manifest: index.toml and the metafiles it lists                     *)
(***************************************************************************)

\* A sub-section of [update]: update_section.get("curseforge") / get("modrinth")
\* and its identifier field ("project-id" / "mod-id").
Section(id) == [present |-> TRUE, id |-> id]

NoSection == [present |-> FALSE, id |-> JMissing]

\* A metafile (modpack/<file>): whether it can be read and parsed, its [update]
\* section, and the fields name, side and download.url.
Metafile(readable, has_update, curseforge, modrinth, name, side, url) ==
    [readable |-> readable, has_update |-> has_update,
     curseforge |-> curseforge, modrinth |-> modrinth,
     name |-> name, side |-> side, url |-> url]

SelfDescribed(name, side, url) ==
    Metafile(TRUE, FALSE, NoSection, NoSection, name, side, url)

Updating(curseforge, modrinth) ==
    Metafile(TRUE, TRUE, curseforge, modrinth, JStr(<<"A">>), JStr(W_both), JMissing)

\* An element of the index's files array: file (a path, or absent), metafile
\* ("true", "false", or "absent" when missing or no boolean), and the document
\* the path leads to.
IndexEntry(file, metafile, doc) == [file |-> file, metafile |-> metafile, doc |-> doc]

\* The filter_map over the files array: the entries with a file path and
\* metafile = true, in order.
MetafilesOf(files) ==
    SelectSeq(files, LAMBDA f : f.file.t = "string" /\ f.metafile = "true")

\* read_to_string(modpack/<file>) for each entry kept: the documents to scan.
Documents(files) == [k \in DOMAIN files |-> files[k].doc]

\* Mutant of Classify: an [update] with both sub-sections is taken as CurseForge.
ClassifyBothAsCurseforge(doc) ==
    IF ~doc.readable THEN "fail"
    ELSE IF doc.has_update
    THEN IF doc.curseforge.present
         THEN (IF doc.curseforge.id.t = "int" THEN "curseforge" ELSE "fail")
         ELSE IF doc.modrinth.present
         THEN (IF doc.modrinth.id.t = "string" THEN "modrinth" ELSE "fail")
         ELSE "skip"
    ELSE IF IsStr(doc.name) /\ IsStr(doc.side) /\ IsStr(doc.url) THEN "self" ELSE "fail"

\* What the body of `for file in mod_files` does with one metafile: "fail" (it
\* cannot be read, or a required field is missing or mistyped), "curseforge" /
\* "modrinth" (one identifier pushed), "skip" (diagnostic only), "self" (one
\* record pushed).
Classify(doc) ==
    IF ~doc.readable THEN "fail"
    ELSE IF doc.has_update
    THEN IF doc.curseforge.present /\ ~doc.modrinth.present
         THEN (IF doc.curseforge.id.t = "int" THEN "curseforge" ELSE "fail")
         ELSE IF ~doc.curseforge.present /\ doc.modrinth.present
         THEN (IF doc.modrinth.id.t = "string" THEN "modrinth" ELSE "fail")
         ELSE "skip"
    ELSE IF IsStr(doc.name) /\ IsStr(doc.side) /\ IsStr(doc.url) THEN "self" ELSE "fail"

\* Mutant of ScanFailure: a failure of the scanner does not end the run.
ScanGoesOn(e) == "scan"

\* How a scanner failure ends the run: build.rs unwrap()s (panic), main.rs
\* propagates with ? (Err).
ScanFailure(e) == IF e = "build" THEN "panicked" ELSE "errored"

(***************************************************************************)
(* The registries' answers                                                 *)
(***************************************************************************)

\* Registry-A: error_for_status / json::<Vec<Value>>() succeed (ok) with data.
MrResponse(ok, data) == [ok |-> ok, data |-> data]

\* Registry-B: ok as above, has_data = the body holds a "data" array.
CfResponse(ok, has_data, data) == [ok |-> ok, has_data |-> has_data, data |-> data]

\* A `for item in data` loop, given each item's outcome: the first item that
\* fails ends the loop (and the call) with its failure; else the records
\* pushed, in response order.
ItemLoop(outcomes) ==
    IF \E k \in DOMAIN outcomes : outcomes[k].res # "ok"
    THEN [res |-> outcomes[CHOOSE k \in DOMAIN outcomes :
                               /\ outcomes[k].res # "ok"
                               /\ \A j \in 1..(k - 1) : outcomes[j].res = "ok"].res,
          recs |-> <<>>]
    ELSE [res |-> "ok", recs |-> [k \in DOMAIN outcomes |-> outcomes[k].rec]]

\* The result of a call that issued its request and then ran its loop.
Asked(loop) == [sent |-> TRUE, res |-> loop.res, recs |-> loop.recs]

\* The `for item in data` loop of get_modrinth_mods.
ModrinthData(data) == ItemLoop([k \in DOMAIN data |-> ModrinthItem(data[k])])

\* get_modrinth_mods(mod_ids), the registry answering `response` if asked:
\* sent = a request was issued; res = "ok" | "err" | "panic".
get_modrinth_mods(mod_ids, response) ==
    IF mod_ids = <<>> THEN [sent |-> FALSE, res |-> "ok", recs |-> <<>>]
    ELSE IF ~response.ok THEN [sent |-> TRUE, res |-> "err", recs |-> <<>>]
    ELSE Asked(ModrinthData(response.data))

\* The sequences that take their k-th element from the k-th set.
Choices(sets) ==
    {f \in [DOMAIN sets -> UNION {sets[k] : k \in DOMAIN sets}] :
        \A k \in DOMAIN sets : f[k] \in sets[k]}

\* Every result the `for item in data` loop of get_curseforge_mods can have
\* (one per choice of iteration orders).
CurseforgeData(e, data) ==
    {ItemLoop(o) : o \in Choices([k \in DOMAIN data |-> CurseforgeItemOutcomes(e, data[k])])}

\* var("FORGE_API_KEY"): build.rs takes unwrap_or_default() (unset reads as
\* empty); main.rs takes ? (unset is an Err).
KeyReadFails(e, key) == e = "main" /\ key = "unset"

\* The condition under which get_curseforge_mods issues its request:
\* build.rs: !mod_ids.is_empty() && !forge_api_key.is_empty();
\* main.rs:  !mod_ids.is_empty().
CurseforgeAsks(e, key, mod_ids) ==
    IF e = "build" THEN mod_ids # <<>> /\ key = "set" ELSE mod_ids # <<>>

\* Every result of get_curseforge_mods(mod_ids) in entry point e with the
\* environment's key, the registry answering `response` if asked.
get_curseforge_mods(e, key, mod_ids, response) ==
    IF KeyReadFails(e, key) THEN {[sent |-> FALSE, res |-> "err", recs |-> <<>>]}
    ELSE IF ~CurseforgeAsks(e, key, mod_ids) THEN {[sent |-> FALSE, res |-> "ok", recs |-> <<>>]}
    ELSE IF ~response.ok THEN {[sent |-> TRUE, res |-> "err", recs |-> <<>>]}
    ELSE IF ~response.has_data
    THEN {[sent |-> TRUE, res |-> IF e = "build" THEN "panic" ELSE "err", recs |-> <<>>]}
    ELSE {Asked(loop) : loop \in CurseforgeData(e, response.data)}

\* Mutant of Ended: a failed call does not end the run, which goes on to write.
EndedWritingAnyway(res) == "returned"

\* How a failed call (res "err" or "panic") ends the run.
Ended(res) == IF res = "panic" THEN "panicked" ELSE "errored"

(***************************************************************************)
(* Spec: one run of a binary, from reading index.toml to writing the output*)
(***************************************************************************)

\* Longest files array of the index
MaxFiles == 3

Url1 == <<"u", "1">>
Url2 == <<"u", "2">>

SelfA == SelfDescribed(JStr(<<"A">>), JStr(W_both), JStr(Url1))
\* A self-described metafile whose side is none of client, server, both, unknown
SelfA2 == SelfDescribed(JStr(<<"A">>), JStr(W_optional), JStr(Url2))
SelfNoName == SelfDescribed(JMissing, JStr(W_client), JStr(Url1))
CfRef == Updating(Section(JInt(7)), NoSection)
CfRefNoId == Updating(Section(JMissing), NoSection)
MrRef == Updating(NoSection, Section(JStr(<<"m">>)))
MrRefBadId == Updating(NoSection, Section(JInt(7)))
BothRef == Updating(Section(JInt(7)), Section(JStr(<<"m">>)))
NeitherRef == Updating(NoSection, NoSection)
Unreadable == Metafile(FALSE, FALSE, NoSection, NoSection, JMissing, JMissing, JMissing)

\* The entries an index is made of: a metafile of every kind, an entry that is
\* no metafile, and an entry without a file path.
IndexEntries ==
    {IndexEntry(JStr(<<"f">>), "true", d) :
        d \in {SelfA, SelfA2, SelfNoName, CfRef, CfRefNoId, MrRef, MrRefBadId, BothRef,
               NeitherRef, Unreadable}}
    \cup {IndexEntry(JStr(<<"f">>), "false", SelfA),
          IndexEntry(JStr(<<"f">>), "absent", CfRef),
          IndexEntry(JMissing, "true", MrRef)}

MrA == MrItem(JStr(W_required), JStr(W_required), StrArray(<<W_forge, W_fabric>>),
              StrArray(<<V1_19, Vabc, V1_20_1>>))

MrA2 == [MrA EXCEPT !.slug = JStr(<<"b">>)]

MrZ == [MrA EXCEPT !.title = JStr(<<"Z">>), !.server_side = JStr(W_unsupported)]

MrBad == [MrA EXCEPT !.title = JMissing]

MrResponses ==
    {MrResponse(FALSE, <<>>), MrResponse(TRUE, <<>>), MrResponse(TRUE, <<MrA>>),
     MrResponse(TRUE, <<MrZ, MrA2, MrA>>), MrResponse(TRUE, <<MrA, MrBad>>)}

CfB == CfItem(JStr(<<"A">>), CfLinks,
              JArr(<<FileIndex(JStr(V1_20), JInt(1)), FileIndex(JStr(V1_20_0), JInt(4))>>))

CfB2 == CfItem(JStr(<<"A">>), Links(JStr(<<"c", "f", "2">>)),
               JArr(<<FileIndex(JStr(V1_19), JMissing)>>))

CfY == CfItem(JStr(<<"Y">>), CfLinks, JArr(<<>>))

CfBadVersions == CfItem(JStr(<<"A">>), CfLinks,
                        JArr(<<FileIndex(JStr(Vabc), JInt(1)), FileIndex(JStr(V1_20), JInt(1))>>))

CfNoName == CfItem(JMissing, CfLinks, JArr(<<>>))

CfResponses ==
    {CfResponse(FALSE, FALSE, <<>>), CfResponse(TRUE, FALSE, <<>>), CfResponse(TRUE, TRUE, <<>>),
     CfResponse(TRUE, TRUE, <<CfB>>), CfResponse(TRUE, TRUE, <<CfY, CfB2, CfB>>),
     CfResponse(TRUE, TRUE, <<CfB2, CfBadVersions>>), CfResponse(TRUE, TRUE, <<CfNoName>>)}

Init ==
    /\ entry \in {"build", "main"}
    /\ forge_api_key \in {"unset", "empty", "set"}
    /\ index \in {[ok |-> TRUE, files |-> f] : f \in SeqsUpTo(IndexEntries, MaxFiles)}
                 \cup {[ok |-> FALSE, files |-> <<>>]}
    /\ pc = "start"
    /\ mod_files = <<>>
    /\ mods = <<>>
    /\ mr_mods = <<>>
    /\ cf_mods = <<>>
    /\ modrinth_mods = <<>>
    /\ curseforge_mods = <<>>
    /\ requests = <<>>
    /\ output = [written |-> FALSE, mods |-> <<>>]
    /\ arg = <<>>
    /\ ret = <<>>

\* read_modpack: read and parse the index, keep the metafile entries.
ReadIndex ==
    /\ pc = "start"
    /\ IF index.ok
       THEN /\ mod_files' = Documents(MetafilesOf(index.files))
            /\ pc' = "scan"
       ELSE /\ mod_files' = mod_files
            /\ pc' = ScanFailure(entry)
    /\ UNCHANGED <<entry, forge_api_key, index, mods, mr_mods, cf_mods, modrinth_mods,
                   curseforge_mods, requests, output, arg, ret>>

\* read_modpack: one turn of `for file in mod_files`.
ScanFile ==
    /\ pc = "scan"
    /\ mod_files # <<>>
    /\ \E mod_file \in {Head(mod_files)} : \E kind \in {Classify(mod_file)} :
           /\ mod_files' = Tail(mod_files)
           /\ pc' = IF kind = "fail" THEN ScanFailure(entry) ELSE "scan"
           /\ cf_mods' = IF kind = "curseforge" THEN Append(cf_mods, mod_file.curseforge.id.n)
                         ELSE cf_mods
           /\ mr_mods' = IF kind = "modrinth" THEN Append(mr_mods, mod_file.modrinth.id.s)
                         ELSE mr_mods
           /\ mods' = IF kind = "self"
                      THEN Append(mods, ModpackInfo(mod_file.name.s, mod_file.side.s,
                                                    mod_file.url.s, <<>>, <<>>))
                      ELSE mods
    /\ UNCHANGED <<entry, forge_api_key, index, modrinth_mods, curseforge_mods, requests,
                   output, arg, ret>>

\* read_modpack: get_modrinth_mods(mr_mods).await? and mods.append(..).
FetchModrinth ==
    /\ pc = "scan"
    /\ mod_files = <<>>
    /\ \E response \in IF mr_mods = <<>> THEN {MrResponse(TRUE, <<>>)} ELSE MrResponses :
          \E r \in {get_modrinth_mods(mr_mods, response)} :
              /\ requests' = IF r.sent
                             THEN Append(requests, [to |-> "modrinth", ids |-> mr_mods, key |-> "none",
                                                    ok |-> response.ok])
                             ELSE requests
              /\ modrinth_mods' = r.recs
              /\ mods' = mods \o r.recs
              /\ pc' = IF r.res = "ok" THEN "curseforge" ELSE Ended(r.res)
    /\ UNCHANGED <<entry, forge_api_key, index, mod_files, mr_mods, cf_mods,
                   curseforge_mods, output, arg, ret>>

\* read_modpack: get_curseforge_mods(cf_mods).await?, mods.append(..), the
\* final mods.sort_by(..) and Ok(mods).
FetchCurseforge ==
    /\ pc = "curseforge"
    /\ \E response \in IF ~KeyReadFails(entry, forge_api_key)
                          /\ CurseforgeAsks(entry, forge_api_key, cf_mods)
                       THEN CfResponses ELSE {CfResponse(TRUE, TRUE, <<>>)} :
          \E r \in get_curseforge_mods(entry, forge_api_key, cf_mods, response) :
              /\ requests' = IF r.sent
                             THEN Append(requests, [to |-> "curseforge", ids |-> cf_mods,
                                                    key |-> forge_api_key, ok |-> response.ok])
                             ELSE requests
              /\ curseforge_mods' = r.recs
              /\ mods' = IF r.res = "ok" THEN SortBy("mod", mods \o r.recs).val ELSE mods
              /\ pc' = IF r.res = "ok" THEN "returned" ELSE Ended(r.res)
    /\ UNCHANGED <<entry, forge_api_key, index, mod_files, mr_mods, cf_mods,
                   modrinth_mods, output, arg, ret>>

\* main, after read_modpack returned Ok(mods): list the zips (which can fail:
\* get_prism_zips().unwrap / zip_display()?) and write the output file.
WriteOutput ==
    /\ pc = "returned"
    /\ \E zips_ok \in BOOLEAN :
          IF zips_ok
          THEN /\ output' = [written |-> TRUE, mods |-> mods]
               /\ pc' = "done"
          ELSE /\ output' = output
               /\ pc' = ScanFailure(entry)
    /\ UNCHANGED <<entry, forge_api_key, index, mod_files, mods, mr_mods, cf_mods,
                   modrinth_mods, curseforge_mods, requests, arg, ret>>

Next == ReadIndex \/ ScanFile \/ FetchModrinth \/ FetchCurseforge \/ WriteOutput

Spec == Init /\ [][Next]_vars

(***************************************************************************)
(* What the claims speak of, stated independently of the code's parsing.   *)
(***************************************************************************)
IsDigits(s) == s # <<>> /\ \A k \in DOMAIN s : IsDigit(s[k])

\* major.minor or major.minor.patch with numeric components
IsVersionForm(s) == Len(Split(s)) \in {2, 3} /\ \A k \in DOMAIN Split(s) : IsDigits(Split(s)[k])

RECURSIVE StripZeros(_)
StripZeros(s) == IF Len(s) > 1 /\ Head(s) = "0" THEN StripZeros(Tail(s)) ELSE s

\* Order of two decimal numerals by value, of any size: -1, 0 or 1.
NumeralOrder(x, y) ==
    LET a == StripZeros(x)
        b == StripZeros(y)
    IN  IF Len(a) < Len(b) THEN -1
        ELSE IF Len(a) > Len(b) THEN 1
        ELSE IF a = b THEN 0
        ELSE LET d == CHOOSE k \in DOMAIN a : a[k] # b[k] /\ \A j \in 1..(k - 1) : a[j] = b[j]
             IN  IF DigitVal(a[d]) < DigitVal(b[d]) THEN -1 ELSE 1

MinorOf(s) == Split(s)[2]

PatchOf(s) == IF Len(Split(s)) >= 3 THEN Split(s)[3] ELSE <<"0">>

\* (minor, patch) of a against (minor, patch) of b: -1, 0 or 1.
KeyOrder(a, b) ==
    IF NumeralOrder(MinorOf(a), MinorOf(b)) # 0 THEN NumeralOrder(MinorOf(a), MinorOf(b))
    ELSE NumeralOrder(PatchOf(a), PatchOf(b))

\* Newest first: the expected Ordering of a against b.
NewestFirst(a, b) ==
    IF KeyOrder(a, b) = 1 THEN "Less" ELSE IF KeyOrder(a, b) = -1 THEN "Greater" ELSE "Equal"

\* A numeral that a u32 holds: at most 4294967295.
FitsU32(x) == NumeralOrder(x, <<"4", "2", "9", "4", "9", "6", "7", "2", "9", "5">>) <= 0

IsU32VersionForm(s) == IsVersionForm(s) /\ FitsU32(MinorOf(s)) /\ FitsU32(PatchOf(s))

Reversed(o) == IF o = "Less" THEN "Greater" ELSE IF o = "Greater" THEN "Less" ELSE o

\* The comparator's answers on a, b, c form a total preorder that agrees with
\* (minor descending, patch descending).
CmpLaws ==
    /\ ret.ab \in {"Less", "Equal", "Greater"}
    /\ ret.ba = Reversed(ret.ab)
    /\ ret.aa = "Equal"
    /\ (ret.ab # "Greater" /\ ret.bc # "Greater") => ret.ac # "Greater"
    /\ (ret.ab = "Equal" /\ ret.bc = "Equal") => ret.ac = "Equal"
    /\ ret.ab = NewestFirst(arg.a, arg.b)
    /\ (ret.ab = "Equal") <=> (KeyOrder(arg.a, arg.b) = 0)

\* C10 as stated: for all version strings a, b, c of the form major.minor[.patch]
\* with numeric minor and patch, the comparator is a total preorder agreeing with
\* (minor desc, patch desc, absent patch = 0), Equal exactly on equal (minor, patch).
C10_AsStated ==
    (pc = "return" /\ \A s \in {arg.a, arg.b, arg.c} : IsVersionForm(s)) => CmpLaws

\* C10 (amended): the same, for version strings whose minor and patch are
\* numerals no larger than 4294967295 (u32::MAX); beyond it the comparator panics.
C10_CmpTotalPreorder ==
    (pc = "return" /\ \A s \in {arg.a, arg.b, arg.c} : IsU32VersionForm(s)) => CmpLaws

\* 1.20 and 1.20.0 were compared (equal keys), with a third, older version.
C10_Witness ==
    /\ pc = "return"
    /\ arg = [a |-> V1_20, b |-> V1_20_0, c |-> V1_19]
    /\ ret.ab = "Equal"
    /\ ret.ac = "Less"

\* C7: the side of a registry-A record is decided by (client_side, server_side)
\* alone: client for (required|optional, unsupported), server for
\* (unsupported, required|optional), both for every other pair.
C7_SideTable ==
    (pc = "return" /\ ret.res = "ok") =>
        LET c == arg.client_side
            s == arg.server_side
            known(j, w) == j.t = "string" /\ j.s = w
        IN  /\ ((known(c, W_required) \/ known(c, W_optional)) /\ known(s, W_unsupported))
                  => ret.rec.side = W_client
            /\ (known(c, W_unsupported) /\ (known(s, W_required) \/ known(s, W_optional)))
                  => ret.rec.side = W_server
            /\ (~((known(c, W_required) \/ known(c, W_optional)) /\ known(s, W_unsupported))
                /\ ~(known(c, W_unsupported) /\ (known(s, W_required) \/ known(s, W_optional))))
                  => ret.rec.side = W_both

\* (unsupported, required) was normalised to a server-side record.
C7_Witness ==
    /\ pc = "return"
    /\ ret.res = "ok"
    /\ arg.client_side = JStr(W_unsupported)
    /\ arg.server_side = JStr(W_required)
    /\ ret.rec.side = W_server

\* 1.<digits> or 1.<digits>.<digits>
IsOneDotForm(s) == IsVersionForm(s) /\ Split(s)[1] = <<"1">>

\* The number of places of sequence q that hold x
Count(q, x) == Cardinality({k \in DOMAIN q : q[k] = x})

\* C8: the game_versions of a registry-A record are exactly the declared strings
\* of the form 1.<digits>[.<digits>] (each as often as declared, nothing else),
\* newest first: (minor, patch) never increases along the list.
C8_VersionsFilteredNewestFirst ==
    (pc = "return" /\ ret.res = "ok") =>
        LET declared == Strings(arg.game_versions)
            kept     == ret.rec.game_versions
        IN  /\ \A k \in DOMAIN kept : IsOneDotForm(kept[k])
            /\ \A k \in DOMAIN declared :
                  Count(kept, declared[k]) =
                      (IF IsOneDotForm(declared[k]) THEN Count(declared, declared[k]) ELSE 0)
            /\ \A k \in DOMAIN kept : \E j \in DOMAIN declared : declared[j] = kept[k]
            /\ \A k \in 1..(Len(kept) - 1) : KeyOrder(kept[k], kept[k + 1]) >= 0

\* The spec's example: ["1.20.1", "1.19", "abc", "2.0"] gave ["1.20.1", "1.19"].
C8_Witness ==
    /\ pc = "return"
    /\ ret.res = "ok"
    /\ arg.game_versions = StrArray(<<V1_19, Vabc, V2_0, V1_20_1>>)
    /\ ret.rec.game_versions = <<V1_20_1, V1_19>>

\* The loader names in ascending (byte-lexicographic) order
AscendingLoaderNames ==
    <<W_any, W_cauldron, W_fabric, W_forge, W_liteloader, W_neoforge, W_quilt, W_unknown>>

\* The fixed table: 0->any, 1->forge, 2->cauldron, 3->liteloader, 4->fabric,
\* 5->quilt, 6->neoforge, any other value->unknown
TableName(modLoader) ==
    IF modLoader.t = "int" /\ modLoader.n \in 0..6
    THEN <<W_any, W_forge, W_cauldron, W_liteloader, W_fabric, W_quilt, W_neoforge>>[modLoader.n + 1]
    ELSE W_unknown

\* C9: the loaders of a registry-B record are the names of the present modLoader
\* codes under the fixed table, each once, in ascending order; an entry without
\* a modLoader field adds none.
C9_LoadersFromTable ==
    (pc = "return" /\ ret.res = "ok") =>
        LET indexes == arg.latestFilesIndexes.a
            named(n) == \E k \in DOMAIN indexes :
                            indexes[k].modLoader.t # "missing" /\ TableName(indexes[k].modLoader) = n
        IN  ret.rec.loaders = SelectSeq(AscendingLoaderNames, named)

\* The spec's example: codes [1, 4, 4, 99] gave [fabric, forge, unknown].
C9_Witness ==
    /\ pc = "return"
    /\ ret.res = "ok"
    /\ arg.latestFilesIndexes =
          JArr(<<FileIndex(JStr(V1_20), JInt(1)), FileIndex(JStr(V1_20), JInt(4)),
                 FileIndex(JStr(V1_20), JInt(4)), FileIndex(JStr(V1_20), JInt(99))>>)
    /\ ret.rec.loaders = <<W_fabric, W_forge, W_unknown>>

(***************************************************************************)
(* The run as a whole (Spec): what the claims say of the manifest, of the  *)
(* records and of the requests.                                            *)
(***************************************************************************)

\* a <= b in the lexical (byte) order of strings
LexLeq(a, b) ==
    \/ a = b
    \/ \E k \in 1..Len(b) :
          /\ \A j \in 1..(k - 1) : j <= Len(a) /\ a[j] = b[j]
          /\ \/ k = Len(a) + 1
             \/ k <= Len(a) /\ Ord(a[k]) < Ord(b[k])

\* x.name < y.name, or x.name = y.name and x.side <= y.side
NameSideOrdered(x, y) ==
    \/ x.name # y.name /\ LexLeq(x.name, y.name)
    \/ x.name = y.name /\ LexLeq(x.side, y.side)

\* Every adjacent pair of the list is in (name, side) order.
OrderedByNameSide(q) == \A k \in 1..(Len(q) - 1) : NameSideOrdered(q[k], q[k + 1])

\* The two lists hold the same records, each as often in one as in the other.
SameMultiset(p, q) ==
    \A x \in {p[k] : k \in DOMAIN p} \cup {q[k] : k \in DOMAIN q} : Count(p, x) = Count(q, x)

\* An index entry the scanner reads: it has a file path and metafile = true.
IsMetafileEntry(f) == f.file.t = "string" /\ f.metafile = "true"

\* A metafile whose update section has only the integer-id sub-section
HasOnlyIntegerId(doc) == doc.has_update /\ doc.curseforge.present /\ ~doc.modrinth.present

\* A metafile whose update section has only the string-id sub-section
HasOnlyStringId(doc) == doc.has_update /\ ~doc.curseforge.present /\ doc.modrinth.present

\* A metafile whose update section has both sub-sections, or neither
HasBothOrNeither(doc) == doc.has_update /\ (doc.curseforge.present <=> doc.modrinth.present)

\* A metafile that can be read and holds, with the right types, the fields its
\* kind requires: the identifier, or name, side and download.url.
WellFormed(doc) ==
    /\ doc.readable
    /\ HasOnlyIntegerId(doc) => doc.curseforge.id.t = "int"
    /\ HasOnlyStringId(doc) => doc.modrinth.id.t = "string"
    /\ ~doc.has_update => doc.name.t = "string" /\ doc.side.t = "string" /\ doc.url.t = "string"

\* The self-described record of a metafile without update section
SelfRecord(doc) ==
    [name |-> doc.name.s, side |-> doc.side.s, url |-> doc.url.s,
     game_versions |-> <<>>, loaders |-> <<>>]

\* S: the self-described records of the manifest, in manifest order
SelfRecords ==
    LET IsSelf(f) == IsMetafileEntry(f) /\ ~f.doc.has_update
        kept      == SelectSeq(index.files, IsSelf)
    IN  [k \in DOMAIN kept |-> SelfRecord(kept[k].doc)]

\* S, then the registry-A records, then the registry-B records
Concatenation == SelfRecords \o modrinth_mods \o curseforge_mods

\* read_modpack has returned Ok(mods)
ReadModpackOk == pc \in {"returned", "done"}

\* C1: a successful read_modpack returns a list that holds exactly the records
\* of S, A and B (the same multiset, names may repeat) and in which every
\* adjacent pair (x, y) has x.name < y.name, or x.name = y.name and
\* x.side <= y.side.
C1_SortedSameMultiset ==
    ReadModpackOk => SameMultiset(mods, Concatenation) /\ OrderedByNameSide(mods)

\* One self-described record, three registry-A and three registry-B records,
\* names repeating, were returned as seven records in another order than given.
C1_Witness ==
    /\ pc = "returned"
    /\ Len(SelfRecords) = 1
    /\ Len(modrinth_mods) = 3
    /\ Len(curseforge_mods) = 3
    /\ Len(mods) = 7
    /\ mods # Concatenation
    /\ \E i, j \in DOMAIN mods : i # j /\ mods[i].name = mods[j].name

\* C2: in the list read_modpack returns, the records of one (name, side) are in
\* the order they have in the concatenation S, A, B.
C2_StableOnEqualKeys ==
    ReadModpackOk =>
        \A x \in {Concatenation[k] : k \in DOMAIN Concatenation} :
            LET SameKey(r) == r.name = x.name /\ r.side = x.side
            IN  SelectSeq(mods, SameKey) = SelectSeq(Concatenation, SameKey)

\* A list was returned in which a self-described record is followed by a
\* registry record of the same (name, side) that differs from it, the sort
\* having moved other records.
C2_Witness ==
    /\ pc = "returned"
    /\ mods # Concatenation
    /\ \E i \in 1..(Len(mods) - 1) :
          /\ mods[i].name = mods[i + 1].name
          /\ mods[i].side = mods[i + 1].side
          /\ mods[i] # mods[i + 1]
          /\ mods[i].game_versions = <<>>
          /\ mods[i + 1].game_versions # <<>>

\* C3: only the index entries with a file path and metafile = true are scanned;
\* the scan of a well-formed one has exactly one outcome: only the integer-id
\* sub-section: its identifier appended to the integer batch; only the string-id
\* sub-section: its identifier appended to the string batch; both or neither:
\* nothing appended and the run goes on; no update section: one self-described
\* record appended with name, side and download.url copied, game_versions and
\* loaders empty.
C3_ScannerClassification ==
    [][/\ (pc = "start" /\ pc' = "scan") =>
             /\ mod_files' = LET kept == SelectSeq(index.files, IsMetafileEntry)
                             IN  [k \in DOMAIN kept |-> kept[k].doc]
             /\ UNCHANGED <<mods, mr_mods, cf_mods>>
       /\ (pc = "scan" /\ mod_files # <<>> /\ WellFormed(Head(mod_files))) =>
             /\ pc' = "scan"
             /\ mod_files' = Tail(mod_files)
             /\ HasOnlyIntegerId(Head(mod_files)) =>
                   /\ cf_mods' = Append(cf_mods, Head(mod_files).curseforge.id.n)
                   /\ UNCHANGED <<mr_mods, mods>>
             /\ HasOnlyStringId(Head(mod_files)) =>
                   /\ mr_mods' = Append(mr_mods, Head(mod_files).modrinth.id.s)
                   /\ UNCHANGED <<cf_mods, mods>>
             /\ HasBothOrNeither(Head(mod_files)) => UNCHANGED <<cf_mods, mr_mods, mods>>
             /\ ~Head(mod_files).has_update =>
                   /\ mods' = Append(mods, SelfRecord(Head(mod_files)))
                   /\ UNCHANGED <<cf_mods, mr_mods>>]_vars

\* The scan of an index of three entries is complete: the one with both
\* sub-sections was skipped, the one with metafile = false was not read, the
\* one with the integer id gave the only identifier.
C3_Witness ==
    /\ pc = "scan"
    /\ mod_files = <<>>
    /\ index.files = <<IndexEntry(JStr(<<"f">>), "true", BothRef),
                       IndexEntry(JStr(<<"f">>), "false", SelfA),
                       IndexEntry(JStr(<<"f">>), "true", CfRef)>>
    /\ cf_mods = <<7>>
    /\ mr_mods = <<>>
    /\ mods = <<>>

\* C4: the output is written only after the scanner and both normalizers have
\* succeeded, and then it is the whole list: nothing is written in a run whose
\* index or whose metafiles are unreadable or malformed, in a run where a
\* registry answered without success, or in a run that has failed.
C4_NoPartialOutput ==
    /\ pc \in {"panicked", "errored"} => ~output.written
    /\ ~output.written => output.mods = <<>>
    /\ output.written =>
          /\ pc = "done"
          /\ index.ok
          /\ \A k \in DOMAIN index.files :
                IsMetafileEntry(index.files[k]) => WellFormed(index.files[k].doc)
          /\ \A k \in DOMAIN requests : requests[k].ok
          /\ output.mods = mods
          /\ SameMultiset(output.mods, Concatenation)

\* A run has failed on registry-B's non-success answer after the manifest and
\* registry-A were read successfully, and nothing is written.
C4_Witness ==
    /\ pc = "errored"
    /\ SelfRecords # <<>>
    /\ modrinth_mods # <<>>
    /\ Len(requests) = 2
    /\ requests[1].ok
    /\ ~requests[2].ok
    /\ ~output.written

\* C5 as stated: when FORGE_API_KEY is absent from the environment,
\* get_curseforge_mods returns an empty list without issuing a request, and
\* read_modpack returns the sorted list of the self-described and registry-A
\* records, whether the registry-B batch is empty or not.
C5_AbsentKeySkipsBatch ==
    [][(pc = "curseforge" /\ forge_api_key = "unset") =>
          /\ pc' = "returned"
          /\ curseforge_mods' = <<>>
          /\ requests' = requests
          /\ SameMultiset(mods', SelfRecords \o modrinth_mods)
          /\ OrderedByNameSide(mods')]_vars

\* The requests issued to one registry
RequestsTo(registry) == {k \in DOMAIN requests : requests[k].to = registry}

\* C6 as stated: each registry receives at most one request, and none when its
\* identifier batch is empty; with an empty batch the normalizer returns an
\* empty record list.
C6_OneRequestPerBatch ==
    [][/\ (Cardinality(RequestsTo("modrinth")) <= 1)'
       /\ (Cardinality(RequestsTo("curseforge")) <= 1)'
       /\ (\A k \in DOMAIN requests : requests[k].ids # <<>>)'
       /\ (pc = "scan" /\ mod_files = <<>> /\ mr_mods = <<>>) =>
             /\ pc' = "curseforge"
             /\ modrinth_mods' = <<>>
             /\ requests' = requests
       /\ (pc = "curseforge" /\ cf_mods = <<>>) =>
             /\ pc' = "returned"
             /\ curseforge_mods' = <<>>
             /\ requests' = requests]_vars

(***************************************************************************)
(* Malformed versions, sides, loaders (SpecCf, SpecMr, Spec)               *)
(***************************************************************************)

\* A version string whose minor component is missing or non-numeric, or whose
\* patch component is non-numeric
IsMalformedVersion(s) ==
    \/ Len(Split(s)) < 2
    \/ ~IsDigits(Split(s)[2])
    \/ Len(Split(s)) >= 3 /\ ~IsDigits(Split(s)[3])

\* The item's file-index entries all carry a gameVersion string
HasVersionStrings(item) ==
    /\ item.latestFilesIndexes.t = "array"
    /\ \A k \in DOMAIN item.latestFilesIndexes.a : item.latestFilesIndexes.a[k].gameVersion.t = "string"

\* C11 as stated: a registry-B item whose collected gameVersion strings include
\* a malformed one (minor missing or non-numeric, patch non-numeric) yields no
\* record, the run fails, for any number (one or more) of file-index entries.
C11_MalformedVersionFails ==
    (/\ pc = "return"
     /\ HasVersionStrings(arg)
     /\ \E k \in DOMAIN arg.latestFilesIndexes.a :
           IsMalformedVersion(arg.latestFilesIndexes.a[k].gameVersion.s))
        => ret.res # "ok"

\* The enumerated sides
Sides == {W_client, W_server, W_both, W_unknown}

\* Every registry-B record has side unknown, every registry-A record has side
\* client, server or both.
RegistrySides ==
    /\ \A k \in DOMAIN curseforge_mods : curseforge_mods[k].side = W_unknown
    /\ \A k \in DOMAIN modrinth_mods : modrinth_mods[k].side \in {W_client, W_server, W_both}

\* C12 as stated: every record of the list read_modpack returns, from any of
\* the three sources, has side in {client, server, both, unknown}; registry-B
\* records have side unknown, registry-A records client, server or both.
C12_SideEnumerated ==
    ReadModpackOk => (\A k \in DOMAIN mods : mods[k].side \in Sides) /\ RegistrySides

\* a < b in the lexical (byte) order of strings
LexLess(a, b) == a # b /\ LexLeq(a, b)

\* C13 as stated: every record has its loaders in strictly ascending order
\* (sorted, no duplicate), whatever loader list the registry returned; here for
\* the records of registry-A.
C13_LoadersStrictlyAscending ==
    (pc = "return" /\ ret.res = "ok") =>
        \A k \in 1..(Len(ret.rec.loaders) - 1) :
            LexLess(ret.rec.loaders[k], ret.rec.loaders[k + 1])

\* The metafile entries of the index, in order
MetafileEntries == SelectSeq(index.files, IsMetafileEntry)

\* The scanner has read the index and read and classified every metafile it
\* lists, none failing, and the batches hold all their identifiers.
ScanCompleted ==
    /\ index.ok
    /\ mod_files = <<>>
    /\ \A k \in DOMAIN MetafileEntries : WellFormed(MetafileEntries[k].doc)
    /\ Len(cf_mods) = Cardinality({k \in DOMAIN MetafileEntries : HasOnlyIntegerId(MetafileEntries[k].doc)})
    /\ Len(mr_mods) = Cardinality({k \in DOMAIN MetafileEntries : HasOnlyStringId(MetafileEntries[k].doc)})

\* C14: no request is issued to either registry before the scanner has read
\* and classified every metafile of the index; a run that is scanning, or that
\* has failed in scanning, has issued no request.
C14_NoRequestBeforeScanEnds ==
    /\ requests # <<>> => ScanCompleted /\ pc \notin {"start", "scan"}
    /\ \A k \in DOMAIN requests :
          requests[k].ids = (IF requests[k].to = "modrinth" THEN mr_mods ELSE cf_mods)

\* A run has failed on its second metafile (unreadable) after the first gave a
\* registry-A identifier, and no request was issued.
C14_Witness ==
    /\ pc \in {"panicked", "errored"}
    /\ Len(index.files) = 2
    /\ index.files[2].doc = Unreadable
    /\ index.files[2].metafile = "true"
    /\ mr_mods # <<>>
    /\ requests = <<>>

\* C15: the list read_modpack returns is the one it would return had the
\* registry-B records been appended before the registry-A records: the sort of
\* S, B, A equals the sort of S, A, B.
C15_AppendOrderIrrelevant ==
    ReadModpackOk => mods = SortBy("mod", SelfRecords \o curseforge_mods \o modrinth_mods).val

\* A list was returned that holds a registry-A and a registry-B record of the
\* same name.
C15_Witness ==
    /\ pc = "returned"
    /\ \E i \in DOMAIN modrinth_mods : \E j \in DOMAIN curseforge_mods :
          modrinth_mods[i].name = curseforge_mods[j].name
    /\ modrinth_mods \o curseforge_mods # curseforge_mods \o modrinth_mods

\* C16 as stated, for one registry-B item: the record made of an item is the
\* same for every iteration order of the hash sets that collect its versions
\* and loaders, also when distinct version strings compare equal.
C16_HashOrderIrrelevant ==
    pc = "return" => \A outcome \in CurseforgeItemOutcomes(entry, arg) : outcome = ret

\* What a caller of read_modpack can tell of a normalizer's call: whether a
\* request was issued, whether the call failed, and the records returned.
Observed(r) == [sent |-> r.sent, failed |-> r.res # "ok", recs |-> r.recs]

\* C17 as stated, at the call of get_curseforge_mods (up to which the two
\* entry points have done the same): for the same batch, the same environment
\* and the same registry answer, build.rs and src/src/main.rs both fail or
\* both return the same records, and they issue the same request.
C17_EntryPointsAgree ==
    pc = "curseforge" =>
        \A response \in CfResponses :
            {Observed(r) : r \in get_curseforge_mods("build", forge_api_key, cf_mods, response)}
                = {Observed(r) : r \in get_curseforge_mods("main", forge_api_key, cf_mods, response)}

====
